---- MODULE Spec2Model ----
(***************************************************************************)
(* Model of the chimera:generate command of @netisu/chimera.               *)
(*                                                                         *)
(* The repository holds three revisions of commands/GenerateRoutes.ts:     *)
(*   revision 1  src/commands/GenerateRoutes.ts lines 1-152                *)
(*               (unkeyed sha256 pseudonyms, no filters, no secret check)  *)
(*   revision 2  src/commands/GenerateRoutes.ts lines 154-486              *)
(*               (HMAC pseudonyms keyed by app.appKey, filters, display)   *)
(*   revision 3  src/unnamed/part_000                                      *)
(*               (inline template, whole-file obfuscation pass)            *)
(* The variable revision selects the one a run executes.                   *)
(*                                                                         *)
(* JavaScript strings that the code splits or searches are sequences of    *)
(* one-character strings; middleware names, which the code only compares   *)
(* for equality, are TLA+ strings.                                         *)
(***************************************************************************)
EXTENDS Integers, Sequences, FiniteSets, TLC

VARIABLES
    revision,         \* which revision of GenerateRoutes.run executes
    config,           \* [obfuscate, appKey]: config/chimera.ts and app.appKey
    flags,            \* [match, middleware, ignoreMiddleware, display]
    adonisRoutes,     \* Object.values(router.toJSON()).flat()
    pc,               \* position of run()
    namedRoutes,      \* adonisRoutes.filter(r => !!r.name)
    processedRoutes,  \* the sequence handed to buildAndMapRoutes
    routeMap,         \* buildAndMapRoutes: const routeMap
    nameMap,          \* buildAndMapRoutes: const nameMap
    routeIdx,         \* index of routes.forEach
    keyIdx,           \* index of processedKeys.forEach
    currentLevel,     \* path from routeMap to the object currentLevel refers to
    finalCode,        \* the text buffered for writeFile
    fs,               \* [dir, file, mkdirs, writes]: the output path on disk
    fileBefore,       \* the output file as it was before the run
    log,              \* logger calls, in order
    exitCode,         \* this.exitCode (0 while unset)
    stages,           \* steps of run() that have completed
    client            \* the last call into the emitted Chimera object

vars == <<revision, config, flags, adonisRoutes, pc, namedRoutes, processedRoutes,
          routeMap, nameMap, routeIdx, keyIdx, currentLevel, finalCode, fs,
          fileBefore, log, exitCode, stages, client>>

(***************************************************************************)
(* Bounds                                                                  *)
(***************************************************************************)
\* longest route list of a whole run (Spec)
MaxRunRoutes == 2
\* longest route list handed to the tree builder (SpecBuild)
MaxRoutes == 3
\* longest route list behind an artifact a client loads (SpecClient)
MaxClientRoutes == 2
\* longest route list of the filter runs (SpecFilter)
MaxFilterRoutes == 3

(***************************************************************************)
(* Strings                                                                 *)
(***************************************************************************)
Dot == "."

\* String.prototype.includes: needle occurs in hay as a contiguous run
Includes(hay, needle) ==
    \E i \in 0..(Len(hay) - Len(needle)) :
        \A j \in 1..Len(needle) : hay[i + j] = needle[j]

\* Array.prototype.includes on a list of names
ArrIncludes(arr, x) == \E i \in 1..Len(arr) : arr[i] = x

\* String.prototype.split('.'): always at least one piece, empty pieces kept
RECURSIVE SplitFrom(_, _, _)
SplitFrom(s, i, cur) ==
    IF i > Len(s) THEN <<cur>>
    ELSE IF s[i] = Dot THEN <<cur>> \o SplitFrom(s, i + 1, <<>>)
    ELSE SplitFrom(s, i + 1, Append(cur, s[i]))

Split(s) == SplitFrom(s, 1, <<>>)

\* Array.prototype.join('.')
RECURSIVE Join(_)
Join(parts) ==
    IF Len(parts) = 0 THEN <<>>
    ELSE IF Len(parts) = 1 THEN parts[1]
    ELSE parts[1] \o <<Dot>> \o Join(Tail(parts))

\* JavaScript truthiness of a string
Truthy(s) == Len(s) > 0

(***************************************************************************)
(* Route records                                                           *)
(***************************************************************************)
\* RouteJSON as the router hands it over: name is <<>> when the route is
\* unnamed; a middleware item is a function or a named reference; a handler
\* is a controller reference or a closure.
RawRoute(name, pattern, methods, middleware, handler) ==
    [name |-> name, pattern |-> pattern, methods |-> methods,
     middleware |-> middleware, handler |-> handler]

MwFn(name)    == [fn |-> TRUE,  name |-> name]
MwNamed(name) == [fn |-> FALSE, name |-> name]

Controller(module, method) ==
    [controller |-> TRUE, moduleNameOrPath |-> module, method |-> method, name |-> <<>>,
     listArgs |-> <<>>]
Closure(name, listArgs) ==
    [controller |-> FALSE, moduleNameOrPath |-> <<>>, method |-> <<>>, name |-> name,
     listArgs |-> listArgs]

S_closure == <<"c", "l", "o", "s", "u", "r", "e">>
S_handle  == <<"h", "a", "n", "d", "l", "e">>

\* #serializeMiddleware
RECURSIVE serializeMiddleware(_)
serializeMiddleware(middleware) ==
    IF Len(middleware) = 0 THEN <<>>
    ELSE LET one == Head(middleware)
             rest == serializeMiddleware(Tail(middleware))
         IN IF one.fn
            THEN <<IF one.name # "" THEN one.name ELSE "closure">> \o rest
            ELSE IF one.name # "" THEN <<one.name>> \o rest
            ELSE rest

\* #serializeHandler
serializeHandler(handler) ==
    IF handler.controller
    THEN [type |-> "controller",
          moduleNameOrPath |-> handler.moduleNameOrPath,
          method |-> IF Truthy(handler.method) THEN handler.method ELSE S_handle,
          name |-> <<>>,
          args |-> <<>>]
    ELSE [type |-> "closure",
          moduleNameOrPath |-> <<>>,
          method |-> <<>>,
          name |-> IF Truthy(handler.name) THEN handler.name ELSE S_closure,
          args |-> handler.listArgs]

\* #serializeRoute
serializeRoute(route) ==
    [name |-> route.name,
     pattern |-> route.pattern,
     methods |-> SelectSeq(route.methods, LAMBDA m : m # "HEAD"),
     handler |-> serializeHandler(route.handler),
     middleware |-> serializeMiddleware(route.middleware)]

\* #formatHandler, without the terminal colours
formatHandler(route) ==
    IF route.handler.type = "controller"
    THEN route.handler.moduleNameOrPath \o <<Dot>> \o route.handler.method
    ELSE route.handler.name \o
         (IF Truthy(route.handler.args)
          THEN <<"(">> \o route.handler.args \o <<")">>
          ELSE <<>>)

(***************************************************************************)
(* Filters                                                                 *)
(***************************************************************************)
\* a list flag: set is FALSE when the flag was not given
Unset == [set |-> FALSE, names |-> <<>>]
Given(names) == [set |-> TRUE, names |-> names]

\* mutant: some() in place of every()
MiddlewareSome(route, names) ==
    \E i \in 1..Len(names) :
        IF names[i] = "*" THEN Len(route.middleware) > 0
        ELSE ArrIncludes(route.middleware, names[i])

\* this.middleware.every(...) of #isAllowedByFilters
MiddlewareEvery(route, names) ==
    \A i \in 1..Len(names) :
        IF names[i] = "*" THEN Len(route.middleware) > 0
        ELSE ArrIncludes(route.middleware, names[i])

\* mutant: the * test copied from the inclusion filter
IgnoreStarAsInclusion(route, names) ==
    \A i \in 1..Len(names) :
        IF names[i] = "*" THEN Len(route.middleware) > 0
        ELSE ~ArrIncludes(route.middleware, names[i])

\* this.ignoreMiddleware.every(...) of #isAllowedByFilters
IgnoreMiddlewareEvery(route, names) ==
    \A i \in 1..Len(names) :
        IF names[i] = "*" THEN Len(route.middleware) = 0
        ELSE ~ArrIncludes(route.middleware, names[i])

\* mutant: the pattern is not searched
MatchKeywordNoPattern(route, match) ==
    \/ Includes(route.name, match)
    \/ IF route.handler.type = "controller"
       THEN Includes(route.handler.moduleNameOrPath, match)
       ELSE Includes(route.handler.name, match)

\* the keyword tests of #isAllowedByFilters
MatchKeyword(route, match) ==
    \/ Includes(route.name, match)
    \/ Includes(route.pattern, match)
    \/ IF route.handler.type = "controller"
       THEN Includes(route.handler.moduleNameOrPath, match)
       ELSE Includes(route.handler.name, match)

\* mutant: the exclusion filter overwrites the inclusion filter's verdict
\* (if (this.ignoreMiddleware) in place of if (allowRoute && this.ignoreMiddleware))
isAllowedByFiltersOverwrite(route, f) ==
    LET allow1 == IF f.middleware.set
                  THEN MiddlewareEvery(route, f.middleware.names)
                  ELSE TRUE
        allow2 == IF f.ignoreMiddleware.set
                  THEN IgnoreMiddlewareEvery(route, f.ignoreMiddleware.names)
                  ELSE allow1
    IN IF ~allow2 THEN FALSE
       ELSE IF ~Truthy(f.match) THEN TRUE
       ELSE MatchKeyword(route, f.match)

\* #isAllowedByFilters; f is the command's flags (this.match is <<>> when the
\* flag was not given: an empty keyword is falsy as well)
isAllowedByFilters(route, f) ==
    LET allow1 == IF f.middleware.set
                  THEN MiddlewareEvery(route, f.middleware.names)
                  ELSE TRUE
        allow2 == IF allow1 /\ f.ignoreMiddleware.set
                  THEN IgnoreMiddlewareEvery(route, f.ignoreMiddleware.names)
                  ELSE allow1
    IN IF ~allow2 THEN FALSE
       ELSE IF ~Truthy(f.match) THEN TRUE
       ELSE MatchKeyword(route, f.match)

\* run(): the loop that serializes the named routes and keeps the allowed ones
RECURSIVE filterRoutes(_, _)
filterRoutes(routes, f) ==
    IF Len(routes) = 0 THEN <<>>
    ELSE LET serializedRoute == serializeRoute(Head(routes))
             rest == filterRoutes(Tail(routes), f)
         IN IF isAllowedByFilters(serializedRoute, f)
            THEN <<serializedRoute>> \o rest
            ELSE rest

\* adonisRoutes.filter(r => !!r.name)
\* mutant: unnamed routes are kept
filterNamedKeepAll(routes) == routes

filterNamed(routes) == SelectSeq(routes, LAMBDA r : Truthy(r.name))

(***************************************************************************)
(* The name tree                                                           *)
(***************************************************************************)
\* A JavaScript value held in routeMap: a pattern string (leaf), an object
\* (node, with its own properties c) or undefined.
Leaf(pattern)  == [t |-> "leaf", v |-> pattern, c |-> <<>>]
Node(children) == [t |-> "node", v |-> <<>>, c |-> children]
EmptyNode      == Node(<<>>)
Undefined      == [t |-> "undefined", v |-> <<>>, c |-> <<>>]

\* mutant: only an object is kept, a string is replaced by {}
TruthyValueObjectOnly(val) == val.t = "node"

\* value || {} keeps a truthy value: an object, or a non-empty string
TruthyValue(val) ==
    \/ val.t = "node"
    \/ val.t = "leaf" /\ Truthy(val.v)

\* obj[key] for one key: a property of an object, undefined on anything else
Prop(val, key) ==
    IF val.t = "node" /\ key \in DOMAIN val.c THEN val.c[key] ELSE Undefined

\* successive property reads along a path of keys
RECURSIVE GetAt(_, _)
GetAt(val, path) ==
    IF Len(path) = 0 THEN val
    ELSE GetAt(Prop(val, Head(path)), Tail(path))

\* obj[key] = new on the object reached by path (an object, by the caller)
RECURSIVE SetAt(_, _, _, _)
SetAt(val, path, key, new) ==
    IF Len(path) = 0
    THEN Node([k \in (DOMAIN val.c) \cup {key} |-> IF k = key THEN new ELSE val.c[k]])
    ELSE Node([k \in DOMAIN val.c |->
                  IF k = Head(path)
                  THEN SetAt(val.c[k], Tail(path), key, new)
                  ELSE val.c[k]])

(***************************************************************************)
(* Pseudonyms                                                              *)
(***************************************************************************)
\* app.config.get('app.appKey'): undefined, a plain string, or a Secret object
AppKeyNone   == [kind |-> "undefined", value |-> ""]
AppKeyString == [kind |-> "string", value |-> "k"]
AppKeySecret == [kind |-> "secret", value |-> "k"]

\* revision 1, hash(): the first 16 hex digits of sha256(value). The digest
\* is a fixed function of the segment; on the segments of this model it is
\* taken to be collision-free.
hash(value) == <<"#">> \o value

\* revisions 2 and 3, getHashedKey(): the first 8 hex digits of
\* HMAC-sha256(appKey, segment), a function of key and segment.
getHashedKey(key, segment) == <<"#", key>> \o segment

\* crypto.createHmac accepts a string key; a Secret object is no key type
\* and makes it throw
HmacThrows(cfg) == cfg.appKey.kind # "string"

\* the keys buildAndMapRoutes walks for one route name
processedKeysOf(rev, obfuscate, cfg, name) ==
    LET keys == Split(name)
    IN IF ~obfuscate THEN keys
       ELSE IF rev = 1 THEN [i \in 1..Len(keys) |-> hash(keys[i])]
       ELSE [i \in 1..Len(keys) |-> getHashedKey(cfg.appKey.value, keys[i])]

\* mutant: obfuscation quietly switched off when no secret is configured
shouldObfuscateIfKeyed(cfg) == cfg.obfuscate /\ cfg.appKey.kind # "undefined"

\* run(): const shouldObfuscate = chimeraConfig.obfuscate || false
shouldObfuscate(cfg) == cfg.obfuscate

\* the obfuscate argument run() passes to buildAndMapRoutes
buildObfuscate(rev, cfg) == IF rev = 3 THEN FALSE ELSE shouldObfuscate(cfg)

(***************************************************************************)
(* The output path                                                         *)
(***************************************************************************)
\* what the emitted module embeds
Artifact(routes, names, obfuscate, obfuscated) ==
    [routes |-> routes, nameMap |-> names, obfuscate |-> obfuscate,
     obfuscated |-> obfuscated]
NoText == Artifact(EmptyNode, <<>>, FALSE, FALSE)

\* the file at outputPath: absent, left by an earlier run (old), cut short by
\* a failed write (partial), or the text this run wrote (artifact)
File(kind, text) == [kind |-> kind, text |-> text]
AbsentFile  == File("absent", NoText)
OldFile     == File("old", NoText)
PartialFile == File("partial", NoText)

(***************************************************************************)
(* run(), step by step                                                     *)
(***************************************************************************)
Logged(msgs) == log' = log \o msgs

\* run() up to the secret check of revision 2
LoadConfig ==
    /\ pc = "start"
    /\ IF revision = 2 /\ shouldObfuscate(config) /\ config.appKey.kind = "undefined"
       THEN /\ Logged(<<"info:generating", "error:no-app-key">>)
            /\ pc' = "done"
            /\ stages' = stages
       ELSE /\ Logged(<<"info:generating">>)
            /\ pc' = "collect"
            /\ stages' = IF revision = 2 /\ shouldObfuscate(config)
                         THEN stages \cup {"config", "secret"}
                         ELSE stages \cup {"config"}
    /\ UNCHANGED <<client, revision, config, flags, adonisRoutes, namedRoutes,
                   processedRoutes, routeMap, nameMap, routeIdx, keyIdx,
                   currentLevel, finalCode, fs, fileBefore, exitCode>>

\* run(): router.toJSON(), the named routes, and the empty-result returns
CollectRoutes ==
    /\ pc = "collect"
    /\ LET named == filterNamed(adonisRoutes)
       IN IF revision = 1 /\ Len(adonisRoutes) = 0
          THEN /\ Logged(<<"warning:no-routes", "warning:check-routes-file">>)
               /\ pc' = "done"
               /\ UNCHANGED <<namedRoutes, processedRoutes, stages>>
          ELSE IF Len(named) = 0
          THEN /\ Logged(IF revision = 1
                         THEN <<"warning:no-named-routes", "warning:name-your-routes">>
                         ELSE <<"warning:no-named-routes">>)
               /\ pc' = "done"
               /\ namedRoutes' = named
               /\ UNCHANGED <<processedRoutes, stages>>
          ELSE /\ namedRoutes' = named
               /\ stages' = stages \cup {"collect"}
               /\ IF revision = 2
                  THEN /\ pc' = "filter"
                       /\ UNCHANGED <<processedRoutes, log>>
                  ELSE /\ pc' = "build"
                       /\ processedRoutes' = named
                       /\ Logged(IF revision = 1 THEN <<"info:found">> ELSE <<>>)
    /\ UNCHANGED <<client, revision, config, flags, adonisRoutes, routeMap, nameMap,
                   routeIdx, keyIdx, currentLevel, finalCode, fs, fileBefore,
                   exitCode>>

\* run() of revision 2: serialize, filter, and the empty-result return
FilterRoutes ==
    /\ pc = "filter"
    /\ LET kept == filterRoutes(namedRoutes, flags)
       IN /\ processedRoutes' = kept
          /\ IF Len(kept) = 0
             THEN /\ Logged(<<"warning:no-match">>)
                  /\ pc' = "done"
                  /\ stages' = stages
             ELSE /\ Logged(<<"info:found">>)
                  /\ pc' = "build"
                  /\ stages' = stages \cup {"filter"}
    /\ UNCHANGED <<client, revision, config, flags, adonisRoutes, namedRoutes, routeMap,
                   nameMap, routeIdx, keyIdx, currentLevel, finalCode, fs,
                   fileBefore, exitCode>>

\* buildAndMapRoutes: one pass of the body of processedKeys.forEach (keys.forEach
\* in revision 1) for the route at routeIdx. The module is strict-mode code:
\* setting a property on a string primitive throws a TypeError, which run()
\* catches.
BuildStep ==
    /\ pc = "build"
    /\ LET route      == processedRoutes[routeIdx]
           obfuscate  == buildObfuscate(revision, config)
           afterRoute == IF routeIdx = Len(processedRoutes) THEN "render" ELSE "build"
           built      == IF routeIdx = Len(processedRoutes)
                         THEN stages \cup {"build"} ELSE stages
       IN IF ~Truthy(route.name)
          THEN \* if (!route.name) return
               /\ routeIdx' = routeIdx + 1
               /\ keyIdx' = 1
               /\ currentLevel' = <<>>
               /\ pc' = afterRoute
               /\ stages' = built
               /\ UNCHANGED <<routeMap, nameMap>>
          ELSE IF obfuscate /\ revision # 1 /\ HmacThrows(config)
          THEN \* keys.map(getHashedKey): createHmac rejects the key
               /\ pc' = "catch"
               /\ UNCHANGED <<routeMap, nameMap, routeIdx, keyIdx, currentLevel, stages>>
          ELSE LET processedKeys == processedKeysOf(revision, obfuscate, config, route.name)
                   processedKey  == processedKeys[keyIdx]
                   isLastKey     == keyIdx = Len(processedKeys)
                   level         == GetAt(routeMap, currentLevel)
               IN IF level.t # "node"
                  THEN \* currentLevel is a pattern string: the assignment throws
                       /\ pc' = "catch"
                       /\ UNCHANGED <<routeMap, nameMap, routeIdx, keyIdx,
                                      currentLevel, stages>>
                  ELSE IF isLastKey
                  THEN /\ routeMap' = SetAt(routeMap, currentLevel, processedKey,
                                            Leaf(route.pattern))
                       /\ nameMap' = IF obfuscate
                                     THEN (route.name :> Join(processedKeys)) @@ nameMap
                                     ELSE nameMap
                       /\ routeIdx' = routeIdx + 1
                       /\ keyIdx' = 1
                       /\ currentLevel' = <<>>
                       /\ pc' = afterRoute
                       /\ stages' = built
                  ELSE /\ routeMap' = IF TruthyValue(Prop(level, processedKey))
                                      THEN routeMap
                                      ELSE SetAt(routeMap, currentLevel, processedKey,
                                                 EmptyNode)
                       /\ currentLevel' = Append(currentLevel, processedKey)
                       /\ keyIdx' = keyIdx + 1
                       /\ UNCHANGED <<nameMap, routeIdx, pc, stages>>
    /\ UNCHANGED <<client, revision, config, flags, adonisRoutes, namedRoutes,
                   processedRoutes, finalCode, fs, fileBefore, log, exitCode>>

\* run(): the text of the module. Revisions 1 and 2 read the stub and fill its
\* placeholders; revision 3 fills an inline template and, when obfuscation is
\* configured, checks the secret and runs the obfuscator seeded by
\* appKey.release(), which only a Secret object has.
Render ==
    /\ pc = "render"
    /\ IF revision # 3
       THEN /\ finalCode' = Artifact(routeMap, nameMap, shouldObfuscate(config), FALSE)
            /\ pc' = "mkdir"
            /\ stages' = stages \cup {"render"}
            /\ UNCHANGED log
       ELSE IF ~shouldObfuscate(config)
       THEN /\ finalCode' = Artifact(routeMap, nameMap, FALSE, FALSE)
            /\ pc' = "mkdir"
            /\ stages' = stages \cup {"render"}
            /\ UNCHANGED log
       ELSE IF config.appKey.kind = "undefined"
       THEN /\ Logged(<<"info:obfuscating", "error:no-app-key">>)
            /\ pc' = "done"
            /\ stages' = stages \cup {"render"}
            /\ UNCHANGED finalCode
       ELSE IF config.appKey.kind = "string"
       THEN /\ Logged(<<"info:obfuscating">>)
            /\ pc' = "catch"
            /\ stages' = stages \cup {"render", "secret"}
            /\ UNCHANGED finalCode
       ELSE /\ Logged(<<"info:obfuscating">>)
            /\ finalCode' = Artifact(routeMap, nameMap, FALSE, TRUE)
            /\ pc' = "mkdir"
            /\ stages' = stages \cup {"render", "secret", "obfuscate"}
    /\ UNCHANGED <<client, revision, config, flags, adonisRoutes, namedRoutes,
                   processedRoutes, routeMap, nameMap, routeIdx, keyIdx,
                   currentLevel, fs, fileBefore, exitCode>>

\* readFile(stubPath) rejects (revisions 1 and 2)
ReadStubFails ==
    /\ pc = "render"
    /\ revision # 3
    /\ pc' = "catch"
    /\ UNCHANGED <<client, revision, config, flags, adonisRoutes, namedRoutes,
                   processedRoutes, routeMap, nameMap, routeIdx, keyIdx,
                   currentLevel, finalCode, fs, fileBefore, log, exitCode, stages>>

\* mkdir(dirname(finalPath), {recursive: true}) resolves
Mkdir ==
    /\ pc = "mkdir"
    /\ fs' = [fs EXCEPT !.dir = TRUE, !.mkdirs = @ + 1]
    /\ pc' = "write"
    /\ stages' = stages \cup {"mkdir"}
    /\ UNCHANGED <<client, revision, config, flags, adonisRoutes, namedRoutes,
                   processedRoutes, routeMap, nameMap, routeIdx, keyIdx,
                   currentLevel, finalCode, fileBefore, log, exitCode>>

\* mkdir rejects
MkdirFails ==
    /\ pc = "mkdir"
    /\ fs' = [fs EXCEPT !.mkdirs = @ + 1]
    /\ pc' = "catch"
    /\ UNCHANGED <<client, revision, config, flags, adonisRoutes, namedRoutes,
                   processedRoutes, routeMap, nameMap, routeIdx, keyIdx,
                   currentLevel, finalCode, fileBefore, log, exitCode, stages>>

\* mutant: the text is written, then written again
WriteFileTwice ==
    /\ pc = "write"
    /\ fs' = [fs EXCEPT !.file = File("artifact", finalCode), !.writes = @ + 2]
    /\ pc' = "finish"
    /\ stages' = stages \cup {"write"}
    /\ UNCHANGED <<client, revision, config, flags, adonisRoutes, namedRoutes,
                   processedRoutes, routeMap, nameMap, routeIdx, keyIdx,
                   currentLevel, finalCode, fileBefore, log, exitCode>>

\* writeFile(finalPath, text) resolves
WriteFile ==
    /\ pc = "write"
    /\ fs' = [fs EXCEPT !.file = File("artifact", finalCode), !.writes = @ + 1]
    /\ pc' = "finish"
    /\ stages' = stages \cup {"write"}
    /\ UNCHANGED <<client, revision, config, flags, adonisRoutes, namedRoutes,
                   processedRoutes, routeMap, nameMap, routeIdx, keyIdx,
                   currentLevel, finalCode, fileBefore, log, exitCode>>

\* writeFile rejects: before it opened the file (the file is as it was), or
\* after it truncated it (the file is cut short)
WriteFileFails ==
    /\ pc = "write"
    /\ \E left \in {fs.file, PartialFile} :
           fs' = [fs EXCEPT !.file = left, !.writes = @ + 1]
    /\ pc' = "catch"
    /\ UNCHANGED <<client, revision, config, flags, adonisRoutes, namedRoutes,
                   processedRoutes, routeMap, nameMap, routeIdx, keyIdx,
                   currentLevel, finalCode, fileBefore, log, exitCode, stages>>

\* run() after the write: the table of revision 2 under --display, and the
\* success message
Finish ==
    /\ pc = "finish"
    /\ Logged(IF revision = 2 /\ flags.display
              THEN <<"info:displaying", "table", "success">>
              ELSE <<"success">>)
    /\ pc' = "done"
    /\ UNCHANGED <<client, revision, config, flags, adonisRoutes, namedRoutes,
                   processedRoutes, routeMap, nameMap, routeIdx, keyIdx,
                   currentLevel, finalCode, fs, fileBefore, exitCode, stages>>

\* run(): the catch block
Catch ==
    /\ pc = "catch"
    /\ Logged(<<"error:failed", "fatal">>)
    /\ exitCode' = 1
    /\ pc' = "done"
    /\ UNCHANGED <<client, revision, config, flags, adonisRoutes, namedRoutes,
                   processedRoutes, routeMap, nameMap, routeIdx, keyIdx,
                   currentLevel, finalCode, fs, fileBefore, stages>>

(***************************************************************************)
(* The emitted Chimera object: route() and current()                       *)
(***************************************************************************)
\* JavaScript values handed to the resolver: a string, a number (text holds
\* its decimal digits), null, undefined, or an object without a prototype
JsValue(kind, text) == [kind |-> kind, text |-> text]
Str(text)   == JsValue("string", text)
Num(digits) == JsValue("number", digits)
Null        == JsValue("null", <<>>)
NotGiven    == JsValue("undefined", <<>>)
Bare        == JsValue("bare", <<>>)

\* String(value): a bare object has no toString and cannot be converted
StringThrows(value) == value.kind = "bare"
String(value) ==
    IF value.kind = "null" THEN <<"n", "u", "l", "l">>
    ELSE IF value.kind = "undefined"
    THEN <<"u", "n", "d", "e", "f", "i", "n", "e", "d">>
    ELSE value.text

\* the keys every object literal inherits from Object.prototype (constructor
\* stands for them; it is one symbol of the model's alphabet); each of them
\* holds a function, __proto__ aside, which holds null
ObjectPrototypeKeys == {<<"constructor">>}
Function == [t |-> "function", v |-> <<>>, c |-> <<>>]

\* key in pattern, for an object
In(key, pattern) == key \in DOMAIN pattern.c \/ key \in ObjectPrototypeKeys

\* pattern[key], for an object that has the key
Get(pattern, key) ==
    IF key \in DOMAIN pattern.c THEN pattern.c[key] ELSE Function

\* mutant: a key that is not found is skipped
RECURSIVE WalkSkipsAbsent(_, _)
WalkSkipsAbsent(pattern, keys) ==
    IF Len(keys) = 0 THEN pattern
    ELSE IF pattern.t = "node" /\ In(Head(keys), pattern)
    THEN WalkSkipsAbsent(Get(pattern, Head(keys)), Tail(keys))
    ELSE WalkSkipsAbsent(pattern, Tail(keys))

\* route(): for (const key of keys), from this.routes
RECURSIVE Walk(_, _)
Walk(pattern, keys) ==
    IF Len(keys) = 0 THEN pattern
    ELSE IF pattern.t = "node" /\ In(Head(keys), pattern)
    THEN Walk(Get(pattern, Head(keys)), Tail(keys))
    ELSE Undefined

\* String.prototype.indexOf, counted from 1; 0 when the needle does not occur
IndexOf(hay, needle) ==
    IF Includes(hay, needle)
    THEN CHOOSE i \in 1..(Len(hay) - Len(needle) + 1) :
            /\ SubSeq(hay, i, i + Len(needle) - 1) = needle
            /\ \A k \in 1..(i - 1) : SubSeq(hay, k, k + Len(needle) - 1) # needle
    ELSE 0

\* GetSubstitution of String.prototype.replace with a string pattern: $$, $&,
\* $` and $' in the replacement are expanded, every other character is copied
RECURSIVE GetSubstitution(_, _, _, _)
GetSubstitution(replacement, matched, before, after) ==
    IF Len(replacement) = 0 THEN <<>>
    ELSE IF /\ Len(replacement) >= 2
            /\ replacement[1] = "$"
            /\ replacement[2] \in {"$", "&", "`", "'"}
    THEN (CASE replacement[2] = "$" -> <<"$">>
            [] replacement[2] = "&" -> matched
            [] replacement[2] = "`" -> before
            [] replacement[2] = "'" -> after)
         \o GetSubstitution(SubSeq(replacement, 3, Len(replacement)),
                            matched, before, after)
    ELSE <<replacement[1]>>
         \o GetSubstitution(Tail(replacement), matched, before, after)

\* url.replace(needle, replacement) with a string needle: the first
\* occurrence only
Replace(url, needle, replacement) ==
    LET i == IndexOf(url, needle)
    IN IF i = 0 THEN url
       ELSE LET before == SubSeq(url, 1, i - 1)
                after  == SubSeq(url, i + Len(needle), Len(url))
            IN before \o GetSubstitution(replacement, needle, before, after) \o after

\* an own enumerable property of params or queryParams
Entry(key, value) == [key |-> key, value |-> value]

\* route(): for (const key in params) url = url.replace(":" + key, ...)
RECURSIVE Substitute(_, _)
Substitute(url, params) ==
    IF Len(params) = 0 THEN url
    ELSE Substitute(Replace(url, <<":">> \o Head(params).key,
                            String(Head(params).value)),
                    Tail(params))

\* the application/x-www-form-urlencoded serializer of URLSearchParams, on
\* the characters of the model: letters, digits and *-._ are kept, a space
\* becomes +, every other character its percent-encoded byte
UrlEncodeChar(ch) ==
    CASE ch = " " -> <<"+">>
      [] ch = "/" -> <<"%", "2", "F">>
      [] ch = ":" -> <<"%", "3", "A">>
      [] ch = "$" -> <<"%", "2", "4">>
      [] ch = "&" -> <<"%", "2", "6">>
      [] ch = "?" -> <<"%", "3", "F">>
      [] OTHER    -> <<ch>>

RECURSIVE UrlEncode(_)
UrlEncode(text) ==
    IF Len(text) = 0 THEN <<>>
    ELSE UrlEncodeChar(Head(text)) \o UrlEncode(Tail(text))

\* the entries route() appends: null and undefined values are left out
Appended(queryParams) ==
    SelectSeq(queryParams, LAMBDA e : e.value.kind \notin {"null", "undefined"})

\* URLSearchParams.prototype.toString
RECURSIVE SearchParamsToString(_)
SearchParamsToString(entries) ==
    IF Len(entries) = 0 THEN <<>>
    ELSE LET pair == UrlEncode(Head(entries).key) \o <<"=">>
                     \o UrlEncode(String(Head(entries).value))
         IN IF Len(entries) = 1 THEN pair
            ELSE pair \o <<"&">> \o SearchParamsToString(Tail(entries))

\* what a call leaves behind: the returned string, the number of
\* console.error calls, and whether it threw instead of returning
Outcome(result, diagnostics, threw) ==
    [result |-> result, diagnostics |-> diagnostics, threw |-> threw]

\* Chimera.route(name, params, queryParams)
Chimera_route(routes, name, params, queryParams) ==
    IF name.kind # "string" THEN Outcome(<<>>, 1, FALSE)
    ELSE LET pattern == Walk(routes, Split(name.text))
         IN IF pattern.t # "leaf" THEN Outcome(<<>>, 1, FALSE)
            ELSE IF \/ \E i \in 1..Len(params) : StringThrows(params[i].value)
                    \/ \E i \in 1..Len(Appended(queryParams)) :
                          StringThrows(Appended(queryParams)[i].value)
            THEN Outcome(<<>>, 0, TRUE)
            ELSE LET url == Substitute(pattern.v, params)
                     queryString == SearchParamsToString(Appended(queryParams))
                 IN Outcome(IF Truthy(queryString)
                            THEN url \o <<"?">> \o queryString
                            ELSE url,
                            0, FALSE)

\* the text "([^/]+)" that current() puts in place of a parameter, kept as
\* one symbol (escaping the slash inside its character class changes nothing)
Group == "([^/]+)"

\* the end of the match of [^\s/]+ that starts at position i: the run of
\* characters up to the next slash (the model's alphabet has no white space)
RECURSIVE RunEnd(_, _)
RunEnd(text, i) ==
    IF i > Len(text) \/ text[i] = "/" THEN i - 1 ELSE RunEnd(text, i + 1)

\* mutant: parameters are left in the pattern as they are
ReplaceParamsNone(text) == text

\* urlPattern.replace(/:[^\s/]+/g, "([^/]+)")
RECURSIVE ReplaceParams(_)
ReplaceParams(text) ==
    IF Len(text) = 0 THEN <<>>
    ELSE IF text[1] = ":" /\ RunEnd(text, 2) >= 2
    THEN <<Group>> \o ReplaceParams(SubSeq(text, RunEnd(text, 2) + 1, Len(text)))
    ELSE <<text[1]>> \o ReplaceParams(Tail(text))

\* .replace(/\//g, "\\/")
RECURSIVE EscapeSlashes(_)
EscapeSlashes(text) ==
    IF Len(text) = 0 THEN <<>>
    ELSE (IF text[1] = "/" THEN <<"\\", "/">> ELSE <<text[1]>>)
         \o EscapeSlashes(Tail(text))

\* one term of the compiled expression: a literal character, any character
\* (.), or a group of one or more characters other than a slash; star marks
\* a term followed by *
Atom(k, ch, star) == [k |-> k, ch |-> ch, star |-> star]

\* new RegExp(source), for a source of literals, escaped slashes, groups, .
\* and * (a * always follows a term in the patterns of the model)
RECURSIVE RegExp(_)
RegExp(source) ==
    IF Len(source) = 0 THEN <<>>
    ELSE LET escaped == source[1] = "\\" /\ Len(source) >= 2
             width   == IF escaped THEN 2 ELSE 1
             star    == Len(source) > width /\ source[width + 1] = "*"
             term    == IF escaped THEN Atom("lit", source[2], star)
                        ELSE IF source[1] = Group THEN Atom("group", "", star)
                        ELSE IF source[1] = "." THEN Atom("any", "", star)
                        ELSE Atom("lit", source[1], star)
         IN <<term>> \o RegExp(SubSeq(source, width + (IF star THEN 2 ELSE 1),
                                      Len(source)))

\* one character against one term
TermTakes(term, ch) ==
    CASE term.k = "lit"   -> ch = term.ch
      [] term.k = "any"   -> TRUE
      [] term.k = "group" -> ch # "/"

\* regex.test(text) for ^ terms $: the terms take the whole of the text
RECURSIVE Test(_, _)
Test(terms, text) ==
    IF Len(terms) = 0 THEN Len(text) = 0
    ELSE LET term == Head(terms)
             least == IF term.star THEN 0 ELSE 1
             most  == IF term.k = "group" \/ term.star THEN Len(text) ELSE 1
         IN \E n \in least..most :
                /\ n <= Len(text)
                /\ \A k \in 1..n : TermTakes(term, text[k])
                /\ Test(Tail(terms), SubSeq(text, n + 1, Len(text)))

\* window: absent outside a browser, else its location.pathname
Window(defined, pathname) == [defined |-> defined, pathname |-> pathname]
NoWindow == Window(FALSE, <<>>)

\* what a call of current leaves behind
Answer(current, diagnostics) == [current |-> current, diagnostics |-> diagnostics]

\* Chimera.current(routeName)
Chimera_current(routes, window, routeName) ==
    IF ~window.defined THEN Answer(FALSE, 0)
    ELSE LET resolved   == Chimera_route(routes, routeName, <<>>, <<>>)
             urlPattern == resolved.result
         IN IF ~Truthy(urlPattern) THEN Answer(FALSE, resolved.diagnostics)
            ELSE Answer(Test(RegExp(EscapeSlashes(ReplaceParams(urlPattern))),
                             window.pathname),
                        resolved.diagnostics)

\* the record of a call: what was asked and what came back
Call(op, name, params, queryParams, window, result, answer, diagnostics, threw) ==
    [op |-> op, name |-> name, params |-> params, queryParams |-> queryParams,
     window |-> window, result |-> result, current |-> answer,
     diagnostics |-> diagnostics, threw |-> threw]
NoCall == Call("none", NotGiven, <<>>, <<>>, NoWindow, <<>>, FALSE, 0, FALSE)

\* the artifact this run wrote is loaded by a client. A call leaves the
\* Chimera object as it was, so the first call of a client stands for every
\* later one
Emitted ==
    /\ pc = "done"
    /\ revision = 3
    /\ fs.file.kind = "artifact"
    /\ client = NoCall

(***************************************************************************)
(* run() as a whole                                                        *)
(***************************************************************************)
Next ==
    \/ LoadConfig
    \/ CollectRoutes
    \/ FilterRoutes
    \/ BuildStep
    \/ Render
    \/ ReadStubFails
    \/ Mkdir
    \/ MkdirFails
    \/ WriteFile
    \/ WriteFileFails
    \/ Finish
    \/ Catch

(***************************************************************************)
(* Inputs                                                                  *)
(***************************************************************************)
T_us    == <<"u", ".", "s">>
T_use   == <<"u", ".", "s", ".", "e">>
T_u     == <<"u">>
T_h     == <<"h">>
P_show  == <<"/", "u", "/", ":", "i">>
P_alt   == <<"/", "v">>
P_list  == <<"/", "u">>
P_edit  == <<"/", "u", "/", ":", "i", "/", "e">>
P_root  == <<"/">>
P_x     == <<"/", "x">>

\* users.show -> /users/:id and its neighbours, in short
R_show  == RawRoute(T_us, P_show, <<"GET", "HEAD">>, <<MwNamed("auth")>>,
                    Controller(<<"c">>, <<"m">>))
R_alt   == RawRoute(T_us, P_alt, <<"POST">>, <<MwNamed("auth"), MwNamed("acl")>>,
                    Controller(<<"c">>, <<>>))
R_list  == RawRoute(T_u, P_list, <<"GET", "HEAD">>, <<>>, Closure(<<>>, <<>>))
R_edit  == RawRoute(T_use, P_edit, <<"GET", "HEAD">>, <<MwNamed("auth")>>,
                    Controller(<<"c">>, <<"e">>))
R_home  == RawRoute(T_h, P_root, <<"GET", "HEAD">>, <<MwFn("")>>, Closure(<<"f">>, <<"x">>))
R_anon  == RawRoute(<<>>, P_x, <<"GET", "HEAD">>, <<MwNamed("")>>, Closure(<<>>, <<>>))

RunCatalog    == {R_show, R_list, R_home, R_anon}
BuildCatalog  == {R_show, R_alt, R_list, R_edit, R_home, R_anon}
FilterCatalog == {R_show, R_alt, R_list, R_home, R_anon}

SeqsUpTo(S, n) == UNION {[1..k -> S] : k \in 0..n}

Flags(match, middleware, ignoreMiddleware, display) ==
    [match |-> match, middleware |-> middleware,
     ignoreMiddleware |-> ignoreMiddleware, display |-> display]
NoFlags == Flags(<<>>, Unset, Unset, FALSE)

Config(obfuscate, appKey) == [obfuscate |-> obfuscate, appKey |-> appKey]
AppKeys == {AppKeyNone, AppKeyString, AppKeySecret}

MatchValues == {<<>>, <<"u">>, <<"m">>, <<"c">>, <<"v">>}
MiddlewareValues == {Unset, Given(<<>>), Given(<<"*">>), Given(<<"auth">>),
                     Given(<<"auth", "*">>)}
IgnoreValues == {Unset, Given(<<"*">>), Given(<<"acl">>), Given(<<"auth", "*">>)}

\* the state run() starts in
InitWith(revs, cfgs, flagSet, routeLists, files) ==
    /\ revision \in revs
    /\ config \in cfgs
    /\ flags \in flagSet
    /\ adonisRoutes \in routeLists
    /\ fileBefore \in files
    /\ fs = [dir |-> fileBefore.kind # "absent", file |-> fileBefore,
             mkdirs |-> 0, writes |-> 0]
    /\ pc = "start"
    /\ namedRoutes = <<>>
    /\ processedRoutes = <<>>
    /\ routeMap = EmptyNode
    /\ nameMap = <<>>
    /\ routeIdx = 1
    /\ keyIdx = 1
    /\ currentLevel = <<>>
    /\ finalCode = NoText
    /\ log = <<>>
    /\ exitCode = 0
    /\ stages = {}
    /\ client = NoCall

\* whole runs: every revision and configuration, a few flags
Init ==
    InitWith({1, 2, 3},
             {Config(o, k) : o \in BOOLEAN, k \in AppKeys},
             {NoFlags, Flags(<<>>, Unset, Unset, TRUE), Flags(<<"h">>, Unset, Unset, FALSE)},
             SeqsUpTo(RunCatalog, MaxRunRoutes),
             {AbsentFile, OldFile})

Spec == Init /\ [][Next]_vars

\* the tree builder on longer route lists, no flags
InitBuild ==
    InitWith({1, 2, 3},
             {Config(FALSE, AppKeyNone), Config(TRUE, AppKeyString),
              Config(TRUE, AppKeySecret)},
             {NoFlags},
             SeqsUpTo(BuildCatalog, MaxRoutes),
             {AbsentFile})

SpecBuild == InitBuild /\ [][Next]_vars

\* the filters of revision 2 under every combination of the flags
InitFilter ==
    InitWith({2},
             {Config(FALSE, AppKeyNone)},
             {Flags(m, i, g, TRUE) : m \in MatchValues, i \in MiddlewareValues,
                                     g \in IgnoreValues},
             SeqsUpTo(FilterCatalog, MaxFilterRoutes),
             {AbsentFile})

SpecFilter == InitFilter /\ [][Next]_vars

(***************************************************************************)
(* A client of the emitted artifact                                        *)
(***************************************************************************)
T_p     == <<"p">>
T_m     == <<"m">>
T_d     == <<"d">>
P_pair  == <<"/", ":", "i", "d", "/", ":", "i", "/", ":", "i">>
P_dot   == <<"/", "m", ".", "x">>
P_wild  == <<"/", "d", "/", "*">>

\* two parameters of which one name starts with the other and one occurs
\* twice, a literal dot, and a wildcard
R_pair  == RawRoute(T_p, P_pair, <<"GET", "HEAD">>, <<>>, Closure(<<>>, <<>>))
R_dot   == RawRoute(T_m, P_dot, <<"GET", "HEAD">>, <<>>, Closure(<<>>, <<>>))
R_wild  == RawRoute(T_d, P_wild, <<"GET", "HEAD">>, <<>>, Closure(<<>>, <<>>))

ClientCatalog == {R_show, R_list, R_pair, R_dot, R_wild}

\* the first argument: names of the catalog, a name below a leaf, a name the
\* tree cannot hold, a key of Object.prototype, and no string at all
NameArgs ==
    {Str(T_us), Str(T_u), Str(T_p), Str(T_m), Str(T_d), Str(T_use),
     Str(<<"x">>), Str(<<"constructor">>), NotGiven}

ParamArgs ==
    {<<>>,
     <<Entry(<<"i">>, Num(<<"7">>))>>,
     <<Entry(<<"i", "d">>, Num(<<"7">>))>>,
     <<Entry(<<"i", "d">>, Num(<<"7">>)), Entry(<<"i">>, Num(<<"8">>))>>,
     <<Entry(<<"i">>, Str(<<"$", "&">>))>>,
     <<Entry(<<"i">>, Bare)>>}

QueryArgs ==
    {<<>>,
     <<Entry(<<"q">>, Num(<<"1">>))>>,
     <<Entry(<<"q">>, Null), Entry(<<"r">>, Str(<<"/">>))>>,
     <<Entry(<<"q">>, Bare)>>}

WindowArgs ==
    {NoWindow,
     Window(TRUE, <<"/", "u", "/", "7">>),
     Window(TRUE, <<"/", "u", "/", "8">>),
     Window(TRUE, <<"/", "u">>),
     Window(TRUE, <<"/", "u", "/", "7", "/", "e">>),
     Window(TRUE, <<"/", "m", ".", "x">>),
     Window(TRUE, <<"/", "m", "z", "x">>),
     Window(TRUE, <<"/", "d", "/", "*">>),
     Window(TRUE, <<"/", "d", "/">>)}

\* a client calls Chimera.route(name, params, queryParams)
CallRoute ==
    /\ Emitted
    /\ \E name \in NameArgs, params \in ParamArgs, queryParams \in QueryArgs :
          LET outcome == Chimera_route(fs.file.text.routes, name, params, queryParams)
          IN client' = Call("route", name, params, queryParams, NoWindow,
                            outcome.result, FALSE, outcome.diagnostics,
                            outcome.threw)
    /\ UNCHANGED <<revision, config, flags, adonisRoutes, pc, namedRoutes,
                   processedRoutes, routeMap, nameMap, routeIdx, keyIdx,
                   currentLevel, finalCode, fs, fileBefore, log, exitCode,
                   stages>>

\* a client calls Chimera.current(routeName)
CallCurrent ==
    /\ Emitted
    /\ \E name \in NameArgs, window \in WindowArgs :
          LET answer == Chimera_current(fs.file.text.routes, window, name)
          IN client' = Call("current", name, <<>>, <<>>, window, <<>>,
                            answer.current, answer.diagnostics, FALSE)
    /\ UNCHANGED <<revision, config, flags, adonisRoutes, pc, namedRoutes,
                   processedRoutes, routeMap, nameMap, routeIdx, keyIdx,
                   currentLevel, finalCode, fs, fileBefore, log, exitCode,
                   stages>>

\* the third revision's run() (it neither filters nor reads a stub), then any
\* number of calls into what it wrote
NextClient ==
    \/ LoadConfig
    \/ CollectRoutes
    \/ BuildStep
    \/ Render
    \/ Mkdir
    \/ MkdirFails
    \/ WriteFile
    \/ WriteFileFails
    \/ Finish
    \/ Catch
    \/ CallRoute
    \/ CallCurrent

InitClient ==
    InitWith({3},
             {Config(FALSE, AppKeyNone), Config(TRUE, AppKeySecret)},
             {NoFlags},
             SeqsUpTo(ClientCatalog, MaxClientRoutes),
             {AbsentFile})

SpecClient == InitClient /\ [][NextClient]_vars

(***************************************************************************)
(* Properties of the tree builder                                          *)
(***************************************************************************)
\* buildAndMapRoutes has returned
BuildReturned == "build" \in stages

\* the path of keys a name is looked up by, under the hash of this run
LookupPath(name) ==
    processedKeysOf(revision, buildObfuscate(revision, config), config, name)

DistinctNames(routes) ==
    \A i, j \in 1..Len(routes) : i # j => routes[i].name # routes[j].name

\* the last route of the input that carries the name
LastWithName(routes, name) ==
    CHOOSE i \in 1..Len(routes) :
        /\ routes[i].name = name
        /\ \A j \in 1..Len(routes) : routes[j].name = name => j <= i

\* every path the input names, with all its prefixes
InputPaths ==
    UNION {{SubSeq(LookupPath(processedRoutes[i].name), 1, n) :
               n \in 1..Len(LookupPath(processedRoutes[i].name))} :
           i \in 1..Len(processedRoutes)}

\* C1: once the tree is built from routes with pairwise distinct names, the
\* walk along the (pseudonymized) segments of every route's name ends at a
\* leaf holding that route's pattern.
C1_RoundTrip ==
    (BuildReturned /\ DistinctNames(processedRoutes)) =>
        \A i \in 1..Len(processedRoutes) :
            GetAt(routeMap, LookupPath(processedRoutes[i].name))
                = Leaf(processedRoutes[i].pattern)

\* C2: once the tree is built, a name that several routes of the input carry
\* leads to a leaf holding the pattern of the last of them.
C2_LastRouteWins ==
    BuildReturned =>
        \A i, j \in 1..Len(processedRoutes) :
            (i # j /\ processedRoutes[i].name = processedRoutes[j].name) =>
                GetAt(routeMap, LookupPath(processedRoutes[i].name))
                    = Leaf(processedRoutes[
                          LastWithName(processedRoutes, processedRoutes[i].name)].pattern)

\* one step keeps every path's kind: no leaf becomes a subtree, no subtree
\* becomes a leaf, and the builder does not descend into a leaf
TypeConsistentStep ==
    /\ \A p \in InputPaths :
           /\ ~(GetAt(routeMap, p).t = "leaf" /\ GetAt(routeMap', p).t = "node")
           /\ ~(GetAt(routeMap, p).t = "node" /\ GetAt(routeMap', p).t = "leaf")
    /\ GetAt(routeMap', currentLevel').t # "leaf"

\* C3: at no step of buildAndMapRoutes does a path change between leaf and
\* subtree, or get descended into while it holds a leaf.
C3_TypeConsistency == [][TypeConsistentStep]_vars

(***************************************************************************)
(* Properties of a run                                                     *)
(***************************************************************************)
\* obfuscation is configured and no application secret is
MissingSecret == config.obfuscate /\ config.appKey.kind = "undefined"

\* the output path is as it was before the run
OutputUntouched ==
    /\ fs.mkdirs = 0
    /\ fs.writes = 0
    /\ fs.dir = (fileBefore.kind # "absent")
    /\ fs.file = fileBefore

\* C4: in revisions 2 and 3 (those that key obfuscation on app.appKey), a run
\* with obfuscation configured and no secret never creates the output
\* directory and never writes the output file.
C4_ConfigErrorWritesNothing ==
    (revision \in {2, 3} /\ MissingSecret) => OutputUntouched

\* a run of revision 2 or 3 that ended on the missing secret, with routes to emit
C4_Witness ==
    /\ pc = "done"
    /\ revision \in {2, 3}
    /\ MissingSecret
    /\ ArrIncludes(log, "error:no-app-key")
    /\ \E i \in 1..Len(adonisRoutes) : Truthy(adonisRoutes[i].name)

\* the run ended on an error: the missing secret, or anything run() caught
EndedOnError ==
    /\ pc = "done"
    /\ \/ ArrIncludes(log, "error:no-app-key")
       \/ ArrIncludes(log, "error:failed")

\* C5: every run that ends because of a configuration error, an I/O error or
\* an exception of the tree builder ends with exitCode = 1.
C5_FailureStatus == EndedOnError => exitCode = 1

\* every step that precedes the write in this revision and configuration
StepsBeforeWrite ==
    {"config", "collect", "build", "render", "mkdir"}
        \cup (IF revision = 2 THEN {"filter"} ELSE {})
        \cup (IF config.obfuscate /\ revision \in {2, 3} THEN {"secret"} ELSE {})
        \cup (IF config.obfuscate /\ revision = 3 THEN {"obfuscate"} ELSE {})

\* C6: the output file is written at most once, only after every earlier
\* step has completed, with the text of the finished tree; while no write
\* has been attempted the file is exactly as it was before the run.
C6_SingleCompleteWrite ==
    /\ fs.writes <= 1
    /\ fs.writes = 1 => StepsBeforeWrite \subseteq stages
    /\ fs.writes = 0 => fs.file = fileBefore
    /\ fs.file.kind = "artifact" =>
           /\ fs.file.text = finalCode
           /\ finalCode.routes = routeMap

\* a run that failed after the tree was built and before the write, over an
\* existing file
C6_Witness ==
    /\ pc = "done"
    /\ exitCode = 1
    /\ BuildReturned
    /\ fs.writes = 0
    /\ fileBefore = OldFile
    /\ fs.file = OldFile

(***************************************************************************)
(* Properties of the filters                                               *)
(***************************************************************************)
\* the filter loop of run() has finished
FilterRan == "filter" \in stages \/ ArrIncludes(log, "warning:no-match")

Kept(route) == \E i \in 1..Len(processedRoutes) : processedRoutes[i] = route

\* a route against one flag alone, the other two not given
PassesMatchAlone(route) ==
    isAllowedByFilters(route, Flags(flags.match, Unset, Unset, FALSE))
PassesMiddlewareAlone(route) ==
    isAllowedByFilters(route, Flags(<<>>, flags.middleware, Unset, FALSE))
PassesIgnoreAlone(route) ==
    isAllowedByFilters(route, Flags(<<>>, Unset, flags.ignoreMiddleware, FALSE))

\* the named routes of the input that pass each flag alone, in input order
ExpectedSubsequence ==
    LET chosen == SelectSeq(adonisRoutes,
                      LAMBDA r : /\ Truthy(r.name)
                                 /\ PassesMatchAlone(serializeRoute(r))
                                 /\ PassesMiddlewareAlone(serializeRoute(r))
                                 /\ PassesIgnoreAlone(serializeRoute(r)))
    IN [i \in 1..Len(chosen) |-> serializeRoute(chosen[i])]

\* C7: the sequence handed to the compiler is the input-order subsequence of
\* the named routes that pass each supplied filter on its own (revision 2,
\* the revision that filters).
C7_FilterComposition ==
    FilterRan =>
        /\ Len(processedRoutes) = Len(ExpectedSubsequence)
        /\ \A i \in 1..Len(processedRoutes) :
               processedRoutes[i] = ExpectedSubsequence[i]

\* all three flags given, an unnamed route dropped, a named route filtered
\* out and a named route kept
C7_Witness ==
    /\ "filter" \in stages
    /\ Truthy(flags.match)
    /\ flags.middleware.set /\ Len(flags.middleware.names) > 0
    /\ flags.ignoreMiddleware.set /\ Len(flags.ignoreMiddleware.names) > 0
    /\ Len(namedRoutes) < Len(adonisRoutes)
    /\ Len(processedRoutes) < Len(namedRoutes)
    /\ Len(processedRoutes) > 0

\* a route against every flag but one
PassesOtherThanMatch(route) ==
    isAllowedByFilters(route, [flags EXCEPT !.match = <<>>])
PassesOtherThanMiddleware(route) ==
    isAllowedByFilters(route, [flags EXCEPT !.middleware = Unset])
PassesOtherThanIgnore(route) ==
    isAllowedByFilters(route, [flags EXCEPT !.ignoreMiddleware = Unset])

\* the handler's display identifier: module.method, or the closure's name
DisplayIdentifier(route) ==
    IF route.handler.type = "controller"
    THEN formatHandler(route)
    ELSE route.handler.name

\* the match filter as the claim states it
MatchAsClaimed(route, match) ==
    \/ Includes(route.name, match)
    \/ Includes(route.pattern, match)
    \/ Includes(DisplayIdentifier(route), match)

\* the match filter with a controller searched by its module name or path only
MatchAmended(route, match) ==
    \/ Includes(route.name, match)
    \/ Includes(route.pattern, match)
    \/ /\ route.handler.type = "controller"
       /\ Includes(route.handler.moduleNameOrPath, match)
    \/ /\ route.handler.type = "closure"
       /\ Includes(route.handler.name, match)

\* C8 as stated: with the match flag given, a route is kept exactly if the
\* keyword occurs in its name, its pattern or its handler's display
\* identifier (module.method for a controller), the other flags allowing.
C8_MatchDisplayIdentifier ==
    (FilterRan /\ Truthy(flags.match)) =>
        \A i \in 1..Len(namedRoutes) :
            LET r == serializeRoute(namedRoutes[i])
            IN Kept(r) <=> (MatchAsClaimed(r, flags.match) /\ PassesOtherThanMatch(r))

\* C8 amended: with the match flag given, a route is kept exactly if the
\* keyword occurs in its name, its pattern, the module name or path of its
\* controller (not the method), or its closure's name.
C8_MatchFilter ==
    (FilterRan /\ Truthy(flags.match)) =>
        \A i \in 1..Len(namedRoutes) :
            LET r == serializeRoute(namedRoutes[i])
            IN Kept(r) <=> (MatchAmended(r, flags.match) /\ PassesOtherThanMatch(r))

\* a route kept for its controller's module alone, beside a closure route
\* that the keyword drops
C8_Witness ==
    /\ FilterRan
    /\ Truthy(flags.match)
    /\ \E i \in 1..Len(namedRoutes) :
           LET r == serializeRoute(namedRoutes[i])
           IN /\ r.handler.type = "controller"
              /\ ~Includes(r.name, flags.match)
              /\ ~Includes(r.pattern, flags.match)
              /\ Kept(r)
    /\ \E i \in 1..Len(namedRoutes) :
           LET r == serializeRoute(namedRoutes[i])
           IN r.handler.type = "closure" /\ ~Kept(r)

\* the middleware inclusion filter as the claim states it
MiddlewareAsClaimed(route, names) ==
    \A i \in 1..Len(names) :
        \/ names[i] = "*" /\ Len(route.middleware) > 0
        \/ ArrIncludes(route.middleware, names[i])

\* C9: with the middleware flag given, a route is kept exactly if for every
\* listed name either the name is * and the route has a middleware, or the
\* route's middleware contains the name (the other flags allowing); an empty
\* list keeps every route.
C9_MiddlewareFilter ==
    (FilterRan /\ flags.middleware.set) =>
        \A i \in 1..Len(namedRoutes) :
            LET r == serializeRoute(namedRoutes[i])
            IN Kept(r) <=> (MiddlewareAsClaimed(r, flags.middleware.names)
                              /\ PassesOtherThanMiddleware(r))

\* the list names * and a middleware: one route is kept, one is dropped
C9_Witness ==
    /\ FilterRan
    /\ flags.middleware = Given(<<"auth", "*">>)
    /\ Len(processedRoutes) > 0
    /\ Len(processedRoutes) < Len(namedRoutes)

\* the exclusion filter as the claim states it
IgnoreAsClaimed(route, names) ==
    \A i \in 1..Len(names) :
        \/ names[i] = "*" /\ Len(route.middleware) = 0
        \/ ~ArrIncludes(route.middleware, names[i])

\* the exclusion filter with * deciding alone
IgnoreAmended(route, names) ==
    \A i \in 1..Len(names) :
        /\ names[i] = "*" => Len(route.middleware) = 0
        /\ names[i] # "*" => ~ArrIncludes(route.middleware, names[i])

\* C10 as stated: with the ignoreMiddleware flag given, a route is kept
\* exactly if for every listed name either the name is * and the route has
\* no middleware, or the route's middleware does not contain the name.
C10_IgnoreEitherOr ==
    (FilterRan /\ flags.ignoreMiddleware.set) =>
        \A i \in 1..Len(namedRoutes) :
            LET r == serializeRoute(namedRoutes[i])
            IN Kept(r) <=> (IgnoreAsClaimed(r, flags.ignoreMiddleware.names)
                              /\ PassesOtherThanIgnore(r))

\* C10 amended: with the ignoreMiddleware flag given, a route is kept exactly
\* if for every listed name: when the name is * the route has no middleware,
\* and otherwise the route's middleware does not contain the name; with or
\* without the middleware flag.
C10_IgnoreMiddlewareFilter ==
    (FilterRan /\ flags.ignoreMiddleware.set) =>
        \A i \in 1..Len(namedRoutes) :
            LET r == serializeRoute(namedRoutes[i])
            IN Kept(r) <=> (IgnoreAmended(r, flags.ignoreMiddleware.names)
                              /\ PassesOtherThanIgnore(r))

\* * is listed, the middleware flag is given as well: a route with a
\* middleware is dropped and a route without one is kept
C10_Witness ==
    /\ FilterRan
    /\ flags.ignoreMiddleware = Given(<<"*">>)
    /\ flags.middleware.set
    /\ \E i \in 1..Len(namedRoutes) :
           /\ Len(serializeRoute(namedRoutes[i]).middleware) > 0
           /\ ~Kept(serializeRoute(namedRoutes[i]))
    /\ \E i \in 1..Len(namedRoutes) :
           /\ Len(serializeRoute(namedRoutes[i]).middleware) = 0
           /\ Kept(serializeRoute(namedRoutes[i]))

(***************************************************************************)
(* Properties of the empty result and of the collision                     *)
(***************************************************************************)
\* the router holds no named route, or (revision 2, the one that filters)
\* no named route passes the filters
EmptyResult ==
    \A i \in 1..Len(adonisRoutes) :
        \/ ~Truthy(adonisRoutes[i].name)
        \/ revision = 2 /\ ~isAllowedByFilters(serializeRoute(adonisRoutes[i]), flags)

WarningLogged ==
    \/ ArrIncludes(log, "warning:no-routes")
    \/ ArrIncludes(log, "warning:no-named-routes")
    \/ ArrIncludes(log, "warning:no-match")

\* a warning, no output file, the success status
EmptyOutcome ==
    /\ WarningLogged
    /\ fs.writes = 0
    /\ fs.file = fileBefore
    /\ exitCode = 0

\* C15 as stated: every run with no named route, or with no named route
\* surviving the filters, ends with a warning, no file written and the
\* success status.
C15_EmptyAlwaysWarns ==
    (pc = "done" /\ EmptyResult) => EmptyOutcome

\* C15 amended: every such run writes no file, and every such run that is
\* not stopped by the configuration check first ends with a warning and the
\* success status (revision 2 checks the secret before it reads the routes,
\* and then reports the configuration error instead of the warning).
C15_EmptyResultPolicy ==
    (pc = "done" /\ EmptyResult) =>
        /\ fs.writes = 0
        /\ fs.file = fileBefore
        /\ ~(revision = 2 /\ MissingSecret) => WarningLogged /\ exitCode = 0

\* named routes exist and the filters of revision 2 drop them all
C15_Witness ==
    /\ pc = "done"
    /\ revision = 2
    /\ Len(namedRoutes) > 0
    /\ Len(processedRoutes) = 0
    /\ ArrIncludes(log, "warning:no-match")
    /\ exitCode = 0
    /\ fs.writes = 0

\* name a is a proper dotted prefix of name b
ProperDottedPrefix(a, b) ==
    /\ Len(b) > Len(a)
    /\ SubSeq(b, 1, Len(a)) = a
    /\ b[Len(a) + 1] = Dot

\* the input of the builder holds a route with a non-empty pattern and, later,
\* a route below its name
LeafBeforeDescendant(routes) ==
    \E i, j \in 1..Len(routes) :
        /\ i < j
        /\ Truthy(routes[i].name)
        /\ Truthy(routes[i].pattern)
        /\ ProperDottedPrefix(routes[i].name, routes[j].name)

\* C16: when the builder's input holds a leaf before one of its descendants,
\* the builder never returns a tree, nothing is created or written, and the
\* run ends with exitCode = 1.
C16_CollisionAborts ==
    LeafBeforeDescendant(processedRoutes) =>
        /\ ~BuildReturned
        /\ pc \in {"build", "catch", "done"}
        /\ fs.mkdirs = 0
        /\ fs.writes = 0
        /\ fs.file = fileBefore
        /\ pc = "done" => exitCode = 1

\* the run has ended on the TypeError of the colliding assignment
C16_Witness ==
    /\ pc = "done"
    /\ LeafBeforeDescendant(processedRoutes)
    /\ GetAt(routeMap, currentLevel).t = "leaf"
    /\ exitCode = 1
    /\ ArrIncludes(log, "fatal")

(***************************************************************************)
(* Properties of the resolver                                              *)
(***************************************************************************)
\* the tree a client finds in the artifact
EmbeddedTree == fs.file.text.routes

\* what the tree holds under a dotted name, by own properties
Entry_of(name) == GetAt(EmbeddedTree, Split(name.text))

\* name is not a string, or a segment of it is absent, or the walk ends on a
\* subtree
ResolutionFails(name) ==
    \/ name.kind # "string"
    \/ Entry_of(name).t # "leaf"

\* C11: a call of route whose name is not a string, has an absent segment or
\* ends on a subtree returns the empty string, emits a diagnostic and does not
\* throw, whatever params and queryParams are.
C11_ResolverFailureIsValue ==
    (client.op = "route" /\ ResolutionFails(client.name)) =>
        /\ client.result = <<>>
        /\ client.diagnostics >= 1
        /\ ~client.threw

\* a name that runs through a leaf, called with a value that cannot be
\* converted to a string
C11_Witness ==
    /\ client.op = "route"
    /\ client.name = Str(T_use)
    /\ GetAt(EmbeddedTree, Split(T_us)).t = "leaf"
    /\ \E i \in 1..Len(client.params) : client.params[i].value = Bare
    /\ client.result = <<>>
    /\ client.diagnostics = 1
    /\ ~client.threw

\* the end of the placeholder whose name starts at position i
RECURSIVE PlaceholderEnd(_, _)
PlaceholderEnd(pattern, i) ==
    IF i > Len(pattern) \/ pattern[i] = "/" THEN i - 1
    ELSE PlaceholderEnd(pattern, i + 1)

\* the pattern with every placeholder :key replaced by the string form of
\* params[key], for the keys params has; other placeholders stay
RECURSIVE Substituted(_, _)
Substituted(pattern, params) ==
    IF Len(pattern) = 0 THEN <<>>
    ELSE IF pattern[1] = ":" /\ PlaceholderEnd(pattern, 2) >= 2
    THEN LET key  == SubSeq(pattern, 2, PlaceholderEnd(pattern, 2))
             rest == SubSeq(pattern, PlaceholderEnd(pattern, 2) + 1, Len(pattern))
             held == {i \in 1..Len(params) : params[i].key = key}
         IN (IF held = {} THEN <<":">> \o key
             ELSE String(params[CHOOSE i \in held : TRUE].value))
            \o Substituted(rest, params)
    ELSE <<pattern[1]>> \o Substituted(Tail(pattern), params)

\* the result without its query string
PathPart(call) ==
    LET queryString == SearchParamsToString(Appended(call.queryParams))
    IN IF Truthy(queryString)
       THEN SubSeq(call.result, 1, Len(call.result) - Len(queryString) - 1)
       ELSE call.result

\* C12: when route resolves the name to a leaf pattern, the path part of the
\* result is the pattern with every occurrence of every :key of params
\* replaced by the string form of its value, other placeholders untouched.
C12_ParameterSubstitution ==
    (client.op = "route" /\ ~ResolutionFails(client.name) /\ ~client.threw) =>
        PathPart(client) = Substituted(Entry_of(client.name).v, client.params)

\* the pattern matches the whole path, each placeholder standing for one
\* non-empty run of characters without a slash, every other character for
\* itself
RECURSIVE PatternMatches(_, _)
PatternMatches(pattern, path) ==
    IF Len(pattern) = 0 THEN Len(path) = 0
    ELSE IF pattern[1] = ":" /\ PlaceholderEnd(pattern, 2) >= 2
    THEN \E n \in 1..Len(path) :
            /\ \A k \in 1..n : path[k] # "/"
            /\ PatternMatches(SubSeq(pattern, PlaceholderEnd(pattern, 2) + 1,
                                     Len(pattern)),
                              SubSeq(path, n + 1, Len(path)))
    ELSE /\ Len(path) >= 1
         /\ path[1] = pattern[1]
         /\ PatternMatches(Tail(pattern), Tail(path))

\* C13: current(name) is true exactly when there is an active path, the name
\* resolves to a leaf pattern, and the whole path matches the pattern with
\* each parameter standing for one non-empty segment.
C13_CurrentMatcher ==
    client.op = "current" =>
        (client.current <=>
            /\ client.window.defined
            /\ ~ResolutionFails(client.name)
            /\ PatternMatches(Entry_of(client.name).v, client.window.pathname))

\* current("u.s") is asked of a tree that holds u.s -> /u/:i
AsksShow ==
    /\ client.op = "current"
    /\ client.name = Str(T_us)
    /\ Entry_of(client.name) = Leaf(P_show)

AtPath(pathname) == client.window = Window(TRUE, pathname)

\* C14 as stated: true at /u/7, false at /u/8, false without a window.
C14_CurrentExample ==
    AsksShow =>
        /\ AtPath(<<"/", "u", "/", "7">>) => client.current
        /\ AtPath(<<"/", "u", "/", "8">>) => ~client.current
        /\ ~client.window.defined => ~client.current

\* C14 amended: current takes no parameter values, so it is true at /u/7 and
\* at /u/8 alike (any one segment in the place of :i), false at a path of
\* another shape, and false without a window.
C14_CurrentAnySegment ==
    AsksShow =>
        /\ AtPath(<<"/", "u", "/", "7">>) => client.current
        /\ AtPath(<<"/", "u", "/", "8">>) => client.current
        /\ AtPath(<<"/", "u">>) => ~client.current
        /\ AtPath(<<"/", "u", "/", "7", "/", "e">>) => ~client.current
        /\ ~client.window.defined => ~client.current

C14_Witness ==
    /\ AsksShow
    /\ AtPath(<<"/", "u", "/", "8">>)
    /\ client.current

====
